---- MODULE Spec2Model ----
(***************************************************************************)
(* Template extraction (template_utils.py) of the procurement assistant.   *)
(*                                                                         *)
(* A text is a sequence of tokens.  The tokens "<", ">", "/" are the       *)
(* characters themselves, " " and "\n" are two whitespace characters, and  *)
(* every other token is a word: a non-empty run of name characters that    *)
(* holds none of "<", ">", "/" or whitespace.  No word of the vocabulary   *)
(* is a concatenation of other words, so a substring test on characters    *)
(* is a subsequence test on tokens.  A word written in upper case is its   *)
(* own token; Lower maps it to the lower-case word (str.lower()).          *)
(***************************************************************************)
EXTENDS Integers, Sequences, FiniteSets, TLC

VARIABLES text, pc, result, err, response, doc0, descents, source

vars == <<text, pc, result, err, response, doc0, descents, source>>

----------------------------------------------------------------------------
(* Tokens *)

LT == "<"
GT == ">"
SL == "/"
SP == " "
NL == "\n"

Whitespace == {SP, NL}

\* str.lower() on the words of the vocabulary that are written in upper case
LowerMap ==
  ("RECOMMENDATIONS" :> "recommendations") @@
  ("RECOMMENDATION" :> "recommendation") @@
  ("ACTION" :> "action") @@
  ("JUSTIFICATION" :> "justification") @@
  ("PRIORITY" :> "priority") @@
  ("COMPARISON_START" :> "comparison_start") @@
  ("SUMMARY" :> "summary") @@
  ("VENDOR1" :> "vendor1") @@
  ("VENDOR2" :> "vendor2") @@
  ("VENDOR10" :> "vendor10") @@
  ("VENDOR11" :> "vendor11") @@
  ("NAME" :> "name") @@
  ("PERFORMANCE" :> "performance") @@
  ("STRENGTHS" :> "strengths") @@
  ("CONCERNS" :> "concerns") @@
  ("STATISTICAL_ANALYSIS" :> "statistical_analysis") @@
  ("FINDINGS" :> "findings") @@
  ("FINDING" :> "finding") @@
  ("BUSINESS_IMPACT" :> "business_impact") @@
  ("RESPONSE_START" :> "response_start") @@
  ("ANSWER" :> "answer") @@
  ("RESPONSE" :> "response") @@
  ("INSUFFICIENT_DATA" :> "insufficient_data") @@
  ("HIGH" :> "high") @@
  ("X" :> "x")

Lower(w) == IF w \in DOMAIN LowerMap THEN LowerMap[w] ELSE w

LowerSeq(s) == [i \in 1..Len(s) |-> Lower(s[i])]

\* s[a:] of Python for 1-based a (the empty text when a is past the end)
From(s, a) == IF a > Len(s) THEN <<>> ELSE SubSeq(s, a, Len(s))

\* s[a:b] as the tokens a..b, both 1-based and inclusive
Slice(s, a, b) == IF a > b THEN <<>> ELSE SubSeq(s, a, b)

\* pat occurs in s at position i
OccursAt(s, pat, i) ==
  /\ i >= 1
  /\ i + Len(pat) - 1 <= Len(s)
  /\ \A k \in 1..Len(pat) : s[i + k - 1] = pat[k]

Min(S) == CHOOSE x \in S : \A y \in S : x <= y

\* str.find: the first position of pat in s, 0 when there is none
Find(s, pat) ==
  LET hits == {i \in 1..Len(s) : OccursAt(s, pat, i)}
  IN  IF hits = {} THEN 0 ELSE Min(hits)

\* pat in s
Contains(s, pat) == Find(s, pat) # 0

OpenTag(n) == <<LT, n, GT>>
CloseTag(n) == <<LT, SL, n, GT>>

RECURSIVE LStrip(_)
LStrip(s) == IF s # <<>> /\ Head(s) \in Whitespace THEN LStrip(Tail(s)) ELSE s

RECURSIVE RStrip(_)
RStrip(s) ==
  IF s # <<>> /\ s[Len(s)] \in Whitespace THEN RStrip(SubSeq(s, 1, Len(s) - 1)) ELSE s

\* str.strip()
Strip(s) == RStrip(LStrip(s))

RECURSIVE Concat(_)
Concat(ss) == IF ss = <<>> THEN <<>> ELSE Head(ss) \o Concat(Tail(ss))

\* sep.join(parts)
RECURSIVE Join(_, _)
Join(parts, sep) ==
  IF parts = <<>> THEN <<>>
  ELSE IF Len(parts) = 1 THEN parts[1]
  ELSE parts[1] \o sep \o Join(Tail(parts), sep)

----------------------------------------------------------------------------
(* clean_template_tags *)

\* re.sub(r'<[^>]+>', '', text): scanning from the left, a "<" whose next
\* character is not ">" and that has a ">" further on is removed together
\* with everything up to the first such ">"
RECURSIVE RemoveTags(_)
RemoveTags(s) ==
  IF s = <<>> THEN <<>>
  ELSE LET closers == {j \in 3..Len(s) : s[j] = GT}
       IN  IF s[1] = LT /\ Len(s) >= 2 /\ s[2] # GT /\ closers # {}
           THEN RemoveTags(From(s, Min(closers) + 1))
           ELSE <<s[1]>> \o RemoveTags(Tail(s))

\* re.sub(r'\s+', ' ', cleaned)
RECURSIVE CollapseWhitespace(_)
CollapseWhitespace(s) ==
  IF s = <<>> THEN <<>>
  ELSE IF s[1] \in Whitespace
       THEN <<SP>> \o CollapseWhitespace(LStrip(s))
       ELSE <<s[1]>> \o CollapseWhitespace(Tail(s))

\* a plausible slip: the statements in the wrong order, the tags removed last
clean_template_tags_tags_last(t) == RemoveTags(Strip(CollapseWhitespace(t)))

\* a plausible slip: the final .strip() left out
clean_template_tags_no_strip(t) == CollapseWhitespace(RemoveTags(t))

clean_template_tags(t) == Strip(CollapseWhitespace(RemoveTags(t)))

----------------------------------------------------------------------------
(* re.search(r'<NAME>(.*?)</NAME>', text, re.IGNORECASE | re.DOTALL)       *)
(* Patterns are matched on low, the text in lower case (re.IGNORECASE),    *)
(* and the groups are cut from s, the text as written.                     *)

\* the positions at or after a at which the closing tag of n starts
ClosersFrom(low, n, a) == {j \in a..Len(low) : OccursAt(low, CloseTag(n), j)}

\* the opening tags of n that have a closing tag after them
FieldOpens(low, n) ==
  {i \in 1..Len(low) : OccursAt(low, OpenTag(n), i) /\ ClosersFrom(low, n, i + 3) # {}}

NoField == [found |-> FALSE, group |-> <<>>]

\* the match that starts at the leftmost of the opening tags and ends at
\* the nearest closing tag (the group is lazy)
FieldIn(s, low, n, opens) ==
  IF opens = {} THEN NoField
  ELSE [found |-> TRUE,
        group |-> Slice(s, Min(opens) + 3, Min(ClosersFrom(low, n, Min(opens) + 3)) - 1)]

SearchField(s, n) == FieldIn(s, LowerSeq(s), n, FieldOpens(LowerSeq(s), n))

----------------------------------------------------------------------------
(* xml.etree.ElementTree.fromstring, as far as the extractors read its result *)

IsWord(c) == c \notin {LT, GT, SL, SP, NL}

\* the length of the run of words that starts at position p
RECURSIVE RunOfWords(_, _)
RunOfWords(s, p) == IF p <= Len(s) /\ IsWord(s[p]) THEN 1 + RunOfWords(s, p + 1) ELSE 0

\* the length of the run of whitespace that starts at position p
RECURSIVE RunOfSpace(_, _)
RunOfSpace(s, p) ==
  IF p <= Len(s) /\ s[p] \in Whitespace THEN 1 + RunOfSpace(s, p + 1) ELSE 0

BadTag == [kind |-> "bad", name |-> <<>>, next |-> 0]

\* the end of a tag whose name has been read: ">" at position a, or "/>"
\* for an empty-element tag
TagEnd(s, closing, name, a) ==
  IF a > Len(s) THEN BadTag
  ELSE IF s[a] = GT
       THEN [kind |-> IF closing THEN "close" ELSE "open", name |-> name, next |-> a + 1]
  ELSE IF ~closing /\ s[a] = SL /\ a + 1 <= Len(s) /\ s[a + 1] = GT
       THEN [kind |-> "empty", name |-> name, next |-> a + 2]
  ELSE BadTag

\* the name is the run of nw words at n0 (adjacent words are one name);
\* whitespace may follow it
TagName(s, closing, n0, nw) ==
  IF nw = 0 THEN BadTag
  ELSE TagEnd(s, closing, Slice(s, n0, n0 + nw - 1), n0 + nw + RunOfSpace(s, n0 + nw))

\* The markup that starts with the "<" at position p: a start tag <n>, an
\* end tag </n>, an empty-element tag <n/>; anything else is not well-formed.
LexTag(s, p) ==
  IF p + 1 <= Len(s) /\ s[p + 1] = SL
  THEN TagName(s, TRUE, p + 2, RunOfWords(s, p + 2))
  ELSE TagName(s, FALSE, p + 1, RunOfWords(s, p + 1))

NoText == [some |-> FALSE, val |-> <<>>]

SomeText(v) == [some |-> TRUE, val |-> v]

ParseError == [ok |-> FALSE, elems |-> <<>>]

\* the innermost open element, 0 when none is open
Top(st) == IF st.stack = <<>> THEN 0 ELSE st.stack[Len(st.stack)]

\* elems with a new element named name under the element top
Grow(elems, top, name) ==
  Append(IF top = 0 THEN elems ELSE [elems EXCEPT ![top].nkids = @ + 1],
         [tag |-> name, parent |-> top, text |-> NoText, nkids |-> 0])

\* One pass over the document.  st.stack holds the open elements (indices
\* into st.elems, which lists the elements in document order); st.closed
\* says the root element has ended.  Character data goes to the text of the
\* innermost open element as long as that element has no child yet
\* (afterwards it is the tail of a child, which no extractor reads).
RECURSIVE ParseFrom(_, _)

\* a start or empty-element tag tg, the elements grown by its element
ParseOpen(s, st, tg, grown) ==
  IF tg.kind = "open"
  THEN ParseFrom(s, [st EXCEPT !.pos = tg.next, !.elems = grown,
                               !.stack = Append(@, Len(grown))])
  ELSE ParseFrom(s, [st EXCEPT !.pos = tg.next, !.elems = grown,
                               !.closed = (st.stack = <<>>)])

\* the tag tg at st.pos, the innermost open element being top
ParseTag(s, st, top, tg) ==
  IF tg.kind = "bad" THEN ParseError
  ELSE IF tg.kind = "close" THEN
    IF top # 0 /\ st.elems[top].tag = tg.name
    THEN ParseFrom(s, [st EXCEPT !.pos = tg.next,
                                 !.stack = SubSeq(@, 1, Len(@) - 1),
                                 !.closed = (Len(st.stack) = 1)])
    ELSE ParseError
  ELSE IF st.closed THEN ParseError
  ELSE ParseOpen(s, st, tg, Grow(st.elems, top, tg.name))

\* the character c at st.pos, which is not "<"
ParseChar(s, st, top, c) ==
  IF top = 0 THEN
    IF c \in Whitespace /\ st.closed
    THEN ParseFrom(s, [st EXCEPT !.pos = @ + 1])
    ELSE ParseError
  ELSE IF st.elems[top].nkids = 0 THEN
    ParseFrom(s, [st EXCEPT !.pos = @ + 1,
                            !.elems[top].text = SomeText(Append(@.val, c))])
  ELSE ParseFrom(s, [st EXCEPT !.pos = @ + 1])

ParseFrom(s, st) ==
  IF st.pos > Len(s) THEN [ok |-> st.closed, elems |-> st.elems]
  ELSE IF s[st.pos] = LT THEN ParseTag(s, st, Top(st), LexTag(s, st.pos))
  ELSE ParseChar(s, st, Top(st), s[st.pos])

\* ET.fromstring(xml_string): ok is FALSE where it raises ParseError; the
\* root is elems[1]
fromstring(s) == ParseFrom(s, [pos |-> 1, stack |-> <<>>, elems |-> <<>>, closed |-> FALSE])

\* the members of a set of indices in ascending (document) order
RECURSIVE Ascending(_)
Ascending(S) == IF S = {} THEN <<>> ELSE <<Min(S)>> \o Ascending(S \ {Min(S)})

\* elem.findall(tag): the children of p named tag (case matters), in order
findall(elems, p, tag) ==
  Ascending({i \in 1..Len(elems) : elems[i].parent = p /\ elems[i].tag = <<tag>>})

\* elem.findall("a/b"): the children named b of the children named a
findall2(elems, p, a, b) ==
  Ascending({i \in 1..Len(elems) :
               /\ elems[i].tag = <<b>>
               /\ elems[i].parent # 0
               /\ elems[elems[i].parent].parent = p
               /\ elems[elems[i].parent].tag = <<a>>})

\* the text of the first of the elements hits ("" when it has no text), the
\* default when hits is empty
FirstText(elems, hits, default) ==
  IF hits = <<>> THEN default ELSE SomeText(elems[hits[1]].text.val)

\* elem.findtext(tag, default)
findtext(elems, p, tag, default) == FirstText(elems, findall(elems, p, tag), default)

----------------------------------------------------------------------------
(* The extractors.  Each returns [err, val]: err is "none" and val the     *)
(* returned string, or err names the exception that leaves the function.   *)

Returns(v) == [err |-> "none", val |-> v]
Raises(e) == [err |-> e, val |-> <<>>]

\* text[f:] for f = text.lower().find(marker): find gives -1 when the marker
\* is absent, and text[-1:] is the last character
SliceFrom(t, f) ==
  IF f # 0 THEN From(t, f)
  ELSE IF t = <<>> THEN <<>> ELSE <<t[Len(t)]>>

FromMarker(t, marker) == SliceFrom(t, Find(LowerSeq(t), OpenTag(marker)))

\* f"{i}. {action} (Priority: {priority})\n   Justification: {justification}"
FormatRecommendation(i, action, priority, justification) ==
  <<ToString(i), ". ">> \o action \o <<" (Priority: ">> \o priority
    \o <<")", NL, "   Justification: ">> \o justification

\* a plausible slip: the fallback cleans the slice that was parsed, not the
\* whole response
RecommendationsFallback_clean_slice(t) ==
  clean_template_tags(FromMarker(t, "recommendations"))

\* the except branch of extract_recommendations_template
RecommendationsFallback(t) == clean_template_tags(t)

\* a plausible slip: the priority default used for every record
PriorityOf_always_default(elems, r) == <<"Medium">>

\* rec.findtext("priority", "Medium")
PriorityOf(elems, r) == findtext(elems, r, "priority", SomeText(<<"Medium">>)).val

\* the line of the i-th recommendation element r
RecommendationItem(elems, i, r) ==
  FormatRecommendation(i,
    findtext(elems, r, "action", SomeText(<<"N/A">>)).val,
    PriorityOf(elems, r),
    findtext(elems, r, "justification", SomeText(<<"N/A">>)).val)

\* the result for the recommendation elements recs of a parsed document
RecommendationLines(elems, recs) ==
  IF recs = <<>> THEN Returns(<<"No recommendations provided.">>)
  ELSE Returns(<<"Strategic Recommendations:", NL, NL>>
                 \o Join([i \in 1..Len(recs) |-> RecommendationItem(elems, i, recs[i])],
                         <<NL, NL>>))

\* the body of extract_recommendations_template after ET.fromstring
RecommendationsOf(t, doc) ==
  IF ~doc.ok THEN Returns(RecommendationsFallback(t))
  ELSE RecommendationLines(doc.elems, findall(doc.elems, 1, "recommendation"))

extract_recommendations_template(t) ==
  RecommendationsOf(t, fromstring(FromMarker(t, "recommendations")))

\* the except branch of extract_statistical_template
StatisticalFallback(t) == clean_template_tags(t)

\* f"{label}{value.strip()}\n" when the value is a non-empty string
LabelledPart(label, value) ==
  IF value # <<>> THEN << <<label>> \o Strip(value) \o <<NL>> >> ELSE <<>>

\* "Key Findings:", f"{i}. {f.text.strip()}" for each finding, ""
FindingsPart(el, findings) ==
  IF findings = <<>> THEN <<>>
  ELSE << <<"Key Findings:">> >>
       \o [i \in 1..Len(findings) |->
             <<ToString(i), ". ">> \o Strip(el[findings[i]].text.val)]
       \o << <<>> >>

\* "Recommendations:", f"- {rec.text.strip()}" for each recommendation
RecommendationsPart(el, recs) ==
  IF recs = <<>> THEN <<>>
  ELSE << <<"Recommendations:">> >>
       \o [i \in 1..Len(recs) |-> <<"- ">> \o Strip(el[recs[i]].text.val)]

\* elem.text is None for one of the elements ix: elem.text.strip() raises
SomeTextless(el, ix) == \E k \in 1..Len(ix) : ~el[ix[k]].text.some

\* "\n".join(result), or the message for an empty result
StatisticalResult(lines) ==
  IF lines # <<>> THEN Returns(Join(lines, <<NL>>))
  ELSE Returns(<<"Could not extract statistical analysis from the response.">>)

\* the result for the findings and recommendations of a parsed document
StatisticalLines(el, findings, recs) ==
  IF SomeTextless(el, findings) \/ SomeTextless(el, recs) THEN Raises("AttributeError")
  ELSE StatisticalResult(
         LabelledPart("Summary: ", findtext(el, 1, "summary", NoText).val)
         \o FindingsPart(el, findings)
         \o LabelledPart("Business Impact: ", findtext(el, 1, "business_impact", NoText).val)
         \o RecommendationsPart(el, recs))

\* the body of extract_statistical_template after ET.fromstring
StatisticalOf(t, doc) ==
  IF ~doc.ok THEN Returns(StatisticalFallback(t))
  ELSE StatisticalLines(doc.elems,
                        findall2(doc.elems, 1, "findings", "finding"),
                        findall2(doc.elems, 1, "recommendations", "recommendation"))

extract_statistical_template(t) ==
  StatisticalOf(t, fromstring(FromMarker(t, "statistical_analysis")))

\* the result for the answer and the response match
SynthesisOf(t, answer, resp) ==
  IF answer.found THEN Returns(Strip(answer.group))
  ELSE IF resp.found THEN Returns(Strip(resp.group))
  ELSE Returns(clean_template_tags(t))

\* a plausible slip: the response field tried before the answer field
extract_synthesis_template_response_first(t) ==
  SynthesisOf(t, SearchField(t, "response"), SearchField(t, "answer"))

extract_synthesis_template(t) ==
  SynthesisOf(t, SearchField(t, "answer"), SearchField(t, "response"))

----------------------------------------------------------------------------
(* extract_comparison_template *)

\* range(1, 11)
MaxVendors == 10

NoVendor == [found |-> FALSE, name |-> <<>>, performance |-> <<>>,
             strengths |-> NoText, concerns |-> NoText]

(***************************************************************************)
(* re.search of                                                            *)
(*   <VENDORi>\s*<NAME>(.*?)</NAME>\s*<PERFORMANCE>(.*?)</PERFORMANCE>\s*  *)
(*   (?:<STRENGTHS>(.*?)</STRENGTHS>)?\s*(?:<CONCERNS>(.*?)</CONCERNS>)?   *)
(*   \s*</VENDORi>                                                         *)
(* with re.IGNORECASE | re.DOTALL.  The match is the one a backtracking    *)
(* matcher finds first: the leftmost start, then the shortest name group,  *)
(* then the shortest performance group, then the strengths field taken if  *)
(* the rest can match with it (its group the shortest), then the same for  *)
(* the concerns field.  v is the word vendori, low the text in lower case. *)
(***************************************************************************)

\* \s*: the position after the whitespace at p
Skip(low, p) == p + RunOfSpace(low, p)

\* \s*</VENDORi> matches from p on
EndsAt(low, v, p) == OccursAt(low, CloseTag(v), Skip(low, p))

\* the ends of a concerns group that starts with <CONCERNS> at q and after
\* which the pattern can finish
ConcernEndsAt(low, v, q) ==
  IF OccursAt(low, OpenTag("concerns"), q)
  THEN {j \in ClosersFrom(low, "concerns", q + 3) : EndsAt(low, v, j + 4)}
  ELSE {}

ConcernEnds(low, v, p) == ConcernEndsAt(low, v, Skip(low, p))

\* \s*(?:<CONCERNS>(.*?)</CONCERNS>)?\s*</VENDORi> matches from p on
TailOK(low, v, p) == ConcernEnds(low, v, p) # {} \/ EndsAt(low, v, p)

\* the ends of a strengths group that starts with <STRENGTHS> at q and after
\* which the pattern can finish
StrengthEndsAt(low, v, q) ==
  IF OccursAt(low, OpenTag("strengths"), q)
  THEN {j \in ClosersFrom(low, "strengths", q + 3) : TailOK(low, v, j + 4)}
  ELSE {}

StrengthEnds(low, v, p) == StrengthEndsAt(low, v, Skip(low, p))

\* the pattern from the strengths field on matches from p on
RestOK(low, v, p) == StrengthEnds(low, v, p) # {} \/ TailOK(low, v, p)

\* the ends of a performance group that starts with <PERFORMANCE> at b
PerfEnds(low, v, b) ==
  IF OccursAt(low, OpenTag("performance"), b)
  THEN {j \in ClosersFrom(low, "performance", b + 3) : RestOK(low, v, j + 4)}
  ELSE {}

\* the ends of a name group that starts with <NAME> at a
NameEnds(low, v, a) ==
  IF OccursAt(low, OpenTag("name"), a)
  THEN {j \in ClosersFrom(low, "name", a + 3) : PerfEnds(low, v, Skip(low, j + 4)) # {}}
  ELSE {}

\* the positions of <VENDORi> from which the pattern matches
VendorStarts(low, v) ==
  {st \in 1..Len(low) :
     OccursAt(low, OpenTag(v), st) /\ NameEnds(low, v, Skip(low, st + 3)) # {}}

\* an optional group: its opening tag at q, its possible ends (the first is
\* taken); None when it has no end
OptGroup(s, q, ends) ==
  IF ends = {} THEN NoText ELSE SomeText(Slice(s, q + 3, Min(ends) - 1))

\* the match m completed by the concerns group, looked for from p on
VendorConcerns(s, low, v, m, p) ==
  [m EXCEPT !.concerns = OptGroup(s, Skip(low, p), ConcernEnds(low, v, p))]

\* the match m completed by the strengths group, looked for from p on
VendorStrengths(s, low, v, m, p, ends) ==
  VendorConcerns(s, low, v,
                 [m EXCEPT !.strengths = OptGroup(s, Skip(low, p), ends)],
                 IF ends = {} THEN p ELSE Min(ends) + 4)

\* the match m completed by the performance group b..e2
VendorPerformance(s, low, v, m, b, e2) ==
  VendorStrengths(s, low, v, [m EXCEPT !.performance = Slice(s, b + 3, e2 - 1)],
                  e2 + 4, StrengthEnds(low, v, e2 + 4))

VendorPerformanceAt(s, low, v, m, b) ==
  VendorPerformance(s, low, v, m, b, Min(PerfEnds(low, v, b)))

\* the match whose name group is a..e1
VendorName(s, low, v, a, e1) ==
  VendorPerformanceAt(s, low, v,
                      [NoVendor EXCEPT !.found = TRUE, !.name = Slice(s, a + 3, e1 - 1)],
                      Skip(low, e1 + 4))

VendorAt(s, low, v, a) == VendorName(s, low, v, a, Min(NameEnds(low, v, a)))

VendorIn(s, low, v, starts) ==
  IF starts = {} THEN NoVendor ELSE VendorAt(s, low, v, Skip(low, Min(starts) + 3))

\* re.search(vendor_pattern, response_text, re.IGNORECASE | re.DOTALL)
VendorMatch(s, i) ==
  VendorIn(s, LowerSeq(s), "vendor" \o ToString(i),
           VendorStarts(LowerSeq(s), "vendor" \o ToString(i)))

\* match.group(k).strip() if match.group(k) else default
GroupOr(g, default) == IF g.val # <<>> THEN Strip(g.val) ELSE <<default>>

\* the four lines appended for a vendor match (none when there is no match)
VendorLines(m) ==
  IF ~m.found THEN <<>>
  ELSE << <<"**">> \o Strip(m.name) \o <<"**">>,
          <<"Performance: ">> \o Strip(m.performance),
          <<"Strengths: ">> \o GroupOr(m.strengths, "Not specified"),
          <<"Concerns: ">> \o GroupOr(m.concerns, "None identified") \o <<NL>> >>

\* the lines of the vendors i..MaxVendors, in ascending order of i
RECURSIVE VendorLinesFrom(_, _)
VendorLinesFrom(s, i) ==
  IF i > MaxVendors THEN <<>>
  ELSE VendorLines(VendorMatch(s, i)) \o VendorLinesFrom(s, i + 1)

\* the line of a field match m: the label, the trimmed group, the tail
FieldLine(label, m, tail) ==
  IF m.found THEN << <<label>> \o Strip(m.group) \o tail >> ELSE <<>>

\* "\n".join(result) if result, else the tag-stripped text
ComparisonResult(t, lines) ==
  IF lines # <<>> THEN Returns(Join(lines, <<NL>>))
  ELSE Returns(clean_template_tags(t))

extract_comparison_template(t) ==
  ComparisonResult(t,
    FieldLine("Summary: ", SearchField(t, "summary"), <<NL>>)
    \o VendorLinesFrom(t, 1)
    \o FieldLine("Recommendation: ", SearchField(t, "recommendation"), <<>>))

----------------------------------------------------------------------------
(* extract_template_response *)

\* a plausible slip: the comparison probe placed before the recommendations probe
DialectOf_comparison_first(t, low) ==
  IF t = <<>> THEN "empty"
  ELSE IF Contains(low, OpenTag("comparison_start")) THEN "comparison"
  ELSE IF Contains(low, OpenTag("recommendations")) THEN "recommendations"
  ELSE IF Contains(low, OpenTag("statistical_analysis")) THEN "statistical"
  ELSE IF Contains(low, OpenTag("response_start")) \/ Contains(low, OpenTag("answer"))
       THEN "synthesis"
  ELSE IF Contains(low, OpenTag("insufficient_data")) THEN "insufficient"
  ELSE "generic"

\* the probes of extract_template_response on low = response_text.lower()
DialectOf(t, low) ==
  IF t = <<>> THEN "empty"
  ELSE IF Contains(low, OpenTag("recommendations")) THEN "recommendations"
  ELSE IF Contains(low, OpenTag("comparison_start")) THEN "comparison"
  ELSE IF Contains(low, OpenTag("statistical_analysis")) THEN "statistical"
  ELSE IF Contains(low, OpenTag("response_start")) \/ Contains(low, OpenTag("answer"))
       THEN "synthesis"
  ELSE IF Contains(low, OpenTag("insufficient_data")) THEN "insufficient"
  ELSE "generic"

\* the first branch of extract_template_response that the text takes
Dialect(t) == DialectOf(t, LowerSeq(t))

\* the result for the match of the insufficient-data field
InsufficientOf(t, m) ==
  IF m.found THEN Returns(Strip(m.group)) ELSE Returns(clean_template_tags(t))

\* the insufficient-data branch, which falls through to the generic branch
\* when the field has no closing tag
InsufficientOrGeneric(t) == InsufficientOf(t, SearchField(t, "insufficient_data"))

\* the branch d of extract_template_response
Branch(t, d) ==
  CASE d = "empty" -> Returns(t)
    [] d = "recommendations" -> extract_recommendations_template(t)
    [] d = "comparison" -> extract_comparison_template(t)
    [] d = "statistical" -> extract_statistical_template(t)
    [] d = "synthesis" -> extract_synthesis_template(t)
    [] d = "insufficient" -> InsufficientOrGeneric(t)
    [] OTHER -> Returns(clean_template_tags(t))

extract_template_response(t) == Branch(t, Dialect(t))

----------------------------------------------------------------------------
(* The calls, one step at a time: extract_template_response probes the     *)
(* markers and hands the text to one extractor, which returns or raises.   *)

\* <n>body</n>
Elem(n, body) == OpenTag(n) \o body \o CloseTag(n)

\* every text made of at most k parts of a library
RECURSIVE TextsOf(_, _)
TextsOf(lib, k) ==
  IF k = 0 THEN {<<>>}
  ELSE TextsOf(lib, k - 1) \cup {t \o q : t \in TextsOf(lib, k - 1), q \in lib}

Idle == [kind |-> "none"]

\* a call whose argument is the text t, about to start at position p
Call(t, p) ==
  /\ text = t
  /\ pc = p
  /\ result = <<>>
  /\ err = "none"
  /\ response = Idle
  /\ doc0 = Idle
  /\ descents = 0
  /\ source = Idle

\* the call ends with outcome o
Finish(o) ==
  /\ pc' = IF o.err = "none" THEN "done" ELSE "raised"
  /\ result' = o.val
  /\ err' = o.err
  /\ UNCHANGED <<text, response, doc0, descents, source>>

\* the branch d is entered; the empty, the insufficient-data and the
\* generic branch end the call themselves
Enter(d) ==
  IF d = "empty" THEN Finish(Returns(text))
  ELSE IF d = "insufficient" THEN Finish(InsufficientOrGeneric(text))
  ELSE IF d = "generic" THEN Finish(Returns(clean_template_tags(text)))
  ELSE /\ pc' = d
       /\ UNCHANGED <<text, result, err, response, doc0, descents, source>>

\* extract_template_response up to the branch it takes
Dispatch ==
  /\ pc = "start"
  /\ Enter(Dialect(text))

RunRecommendations ==
  /\ pc = "recommendations"
  /\ Finish(extract_recommendations_template(text))

RunComparison ==
  /\ pc = "comparison"
  /\ Finish(extract_comparison_template(text))

RunStatistical ==
  /\ pc = "statistical"
  /\ Finish(extract_statistical_template(text))

RunSynthesis ==
  /\ pc = "synthesis"
  /\ Finish(extract_synthesis_template(text))

----------------------------------------------------------------------------
(* Spec: extract_template_response on texts put together from markers,     *)
(* fields and fragments of the five dialects.                              *)

\* the number of parts of a text
MaxParts == 3

DialectParts ==
  { OpenTag("recommendations"),
    CloseTag("recommendations"),
    Elem("recommendation", Elem("action", <<"x">>)),
    OpenTag("recommendation"),
    OpenTag("statistical_analysis"),
    CloseTag("statistical_analysis"),
    Elem("findings", Elem("finding", <<>>)),
    Elem("summary", <<"y">>),
    OpenTag("COMPARISON_START"),
    Elem("answer", <<"x">>),
    OpenTag("INSUFFICIENT_DATA"),
    CloseTag("insufficient_data"),
    <<"x", NL>> }

Init == \E t \in TextsOf(DialectParts, MaxParts) : Call(t, "start")

Next ==
  \/ Dispatch
  \/ RunRecommendations
  \/ RunComparison
  \/ RunStatistical
  \/ RunSynthesis

Spec == Init /\ [][Next]_vars

----------------------------------------------------------------------------
(* Claims checked under Spec *)

Ended == pc \in {"done", "raised"}

\* what the call gave: the value returned or the exception raised
Outcome == [err |-> err, val |-> result]

\* the text holds the marker <m>, in whatever case
HasMarker(m) == Contains(LowerSeq(text), OpenTag(m))

\* C1: extract_template_response never raises: every call on a string,
\* whichever extractor it reaches, ends by returning a string -- also for a
\* statistical-analysis block with an empty <finding> or <recommendation>.
C1_NeverRaises == pc # "raised" /\ err = "none"

\* C2: the markers are probed in the order recommendations > comparison >
\* statistical analysis > synthesis (<response_start> or <answer>) >
\* insufficient-data > generic; the outcome of a call is the outcome of the
\* extractor of the highest-priority marker the text holds, and of no other.
C2_DispatchByPriority ==
  LET r == HasMarker("recommendations")
      c == HasMarker("comparison_start")
      a == HasMarker("statistical_analysis")
      y == HasMarker("response_start") \/ HasMarker("answer")
      n == HasMarker("insufficient_data")
  IN  /\ pc = "recommendations" => r
      /\ pc = "comparison" => ~r /\ c
      /\ pc = "statistical" => ~r /\ ~c /\ a
      /\ pc = "synthesis" => ~r /\ ~c /\ ~a /\ y
      /\ Ended /\ text # <<>> =>
           /\ r => Outcome = extract_recommendations_template(text)
           /\ ~r /\ c => Outcome = extract_comparison_template(text)
           /\ ~r /\ ~c /\ a => Outcome = extract_statistical_template(text)
           /\ ~r /\ ~c /\ ~a /\ y => Outcome = extract_synthesis_template(text)
           /\ ~r /\ ~c /\ ~a /\ ~y /\ n => Outcome = InsufficientOrGeneric(text)
           /\ ~r /\ ~c /\ ~a /\ ~y /\ ~n => Outcome = Returns(clean_template_tags(text))

\* a call has ended on a text that holds the recommendations and the
\* comparison marker, with the result of the recommendations extractor,
\* which is not what the comparison extractor gives
C2_Witness ==
  /\ pc = "done"
  /\ HasMarker("recommendations") /\ HasMarker("comparison_start")
  /\ result = extract_recommendations_template(text).val
  /\ result # extract_comparison_template(text).val

\* C5: when the text holds the recommendations (or the statistical-analysis)
\* marker and the markup from the marker to the end of the text is not
\* well-formed, the extractor returns clean_template_tags of the whole
\* original text and does not raise.
C5_MalformedFallsBack ==
  /\ Ended /\ Dialect(text) = "recommendations"
       /\ ~fromstring(FromMarker(text, "recommendations")).ok
     => err = "none" /\ result = clean_template_tags(text)
  /\ Ended /\ Dialect(text) = "statistical"
       /\ ~fromstring(FromMarker(text, "statistical_analysis")).ok
     => err = "none" /\ result = clean_template_tags(text)

\* the recommendations extractor has returned on a text with an unterminated
\* recommendation tag after the marker and some text before the marker
C5_Witness ==
  /\ pc = "done"
  /\ Dialect(text) = "recommendations"
  /\ \E i \in 1..Len(text) :
       /\ OccursAt(text, OpenTag("recommendations") \o OpenTag("recommendation"), i)
       /\ i + 5 = Len(text)
       /\ i > 1
  /\ result = clean_template_tags(text)
  /\ result # clean_template_tags(FromMarker(text, "recommendations"))

----------------------------------------------------------------------------
(* SpecClean: clean_template_tags and extract_template_response on every   *)
(* string of at most MaxLen characters, each applied a second time to its  *)
(* own result.                                                             *)

\* the length of a raw string
MaxLen == 5

RawChars == {<<LT>>, <<GT>>, <<SP>>, <<NL>>, <<"answer">>}

\* a call on the raw string t; source keeps the string and counts the passes
RawCall(t) ==
  /\ text = t
  /\ pc = "start"
  /\ result = <<>>
  /\ err = "none"
  /\ response = Idle
  /\ doc0 = Idle
  /\ descents = 0
  /\ source = [kind |-> "raw", orig |-> t, pass |-> 1]

InitClean == \E t \in TextsOf(RawChars, MaxLen) : RawCall(t)

\* clean_template_tags(text)
Clean ==
  /\ pc = "start"
  /\ source.pass = 1
  /\ pc' = "cleaned"
  /\ result' = clean_template_tags(text)
  /\ UNCHANGED <<text, err, response, doc0, descents, source>>

\* clean_template_tags applied to the string it returned
CleanAgain ==
  /\ pc = "cleaned"
  /\ source.pass = 1
  /\ text' = result
  /\ result' = clean_template_tags(result)
  /\ source' = [source EXCEPT !.pass = 2]
  /\ UNCHANGED <<pc, err, response, doc0, descents>>

\* extract_template_response called on the string it returned
ExtractAgain ==
  /\ pc = "done"
  /\ source.pass = 1
  /\ text' = result
  /\ result' = <<>>
  /\ pc' = "start"
  /\ source' = [source EXCEPT !.pass = 2]
  /\ UNCHANGED <<err, response, doc0, descents>>

NextClean ==
  \/ Clean
  \/ CleanAgain
  \/ Dispatch
  \/ RunSynthesis
  \/ ExtractAgain

SpecClean == InitClean /\ [][NextClean]_vars

\* the string holds a match of <[^>]+>: a "<", one or more characters other
\* than ">", and a ">"
HasTag(r) ==
  \E i \in 1..Len(r) : \E j \in (i + 2)..Len(r) :
    /\ r[i] = LT
    /\ r[j] = GT
    /\ \A k \in (i + 1)..(j - 1) : r[k] # GT

\* two whitespace characters in a row
HasSpaceRun(r) == \E i \in 1..(Len(r) - 1) : r[i] \in Whitespace /\ r[i + 1] \in Whitespace

\* whitespace at either end
HasOuterSpace(r) == r # <<>> /\ (r[1] \in Whitespace \/ r[Len(r)] \in Whitespace)

\* C3: clean_template_tags is total and returns a string without any
\* angle-bracket-delimited tag (a "<", at least one character other than
\* ">", a ">"), without a run of two or more whitespace characters and
\* without leading or trailing whitespace.
C3_CleanIsTagFreeAndCollapsed ==
  pc = "cleaned" => ~HasTag(result) /\ ~HasSpaceRun(result) /\ ~HasOuterSpace(result)

\* clean_template_tags has returned a non-empty string for a text that
\* held a tag and whitespace at an end
C3_Witness ==
  /\ pc = "cleaned"
  /\ source.pass = 1
  /\ HasTag(text) /\ HasOuterSpace(text)
  /\ result # <<>>

\* the string is what clean_template_tags leaves alone: no tag, no other
\* whitespace than single inner spaces
IsCleaned(r) ==
  ~HasTag(r) /\ ~HasSpaceRun(r) /\ ~HasOuterSpace(r) /\ \A i \in 1..Len(r) : r[i] # NL

\* C4: for an already cleaned text t, extract_template_response(t) = t and
\* so extract_template_response(extract_template_response(t)) = t; and
\* clean_template_tags(clean_template_tags(x)) = clean_template_tags(x) for
\* every string x.
C4_Idempotent ==
  /\ pc = "done" /\ (IsCleaned(source.orig) \/ clean_template_tags(source.orig) = source.orig)
       => err = "none" /\ result = source.orig
  /\ pc = "cleaned" /\ source.pass = 2 => result = text

\* extract_template_response has returned a second time on a cleaned text
\* that holds angle brackets and a space
C4_Witness ==
  /\ pc = "done"
  /\ source.pass = 2
  /\ IsCleaned(source.orig)
  /\ \E i \in 1..Len(source.orig) : source.orig[i] = LT
  /\ \E i \in 1..Len(source.orig) : source.orig[i] = SP
  /\ result = source.orig

\* clean_template_tags has returned a second time, on a text that the first
\* call had changed
C4_WitnessClean == pc = "cleaned" /\ source.pass = 2 /\ text # source.orig /\ text # <<>>

----------------------------------------------------------------------------
(* SpecBlock: extract_template_response on well-formed recommendations and *)
(* statistical-analysis blocks written out from their fields, with the     *)
(* tags in lower or in upper case, alone or after some leading text.       *)

\* the number of recommendation elements of a block
MaxRecs == 2

\* the number of finding elements of a block
MaxFindings == 2

\* the tag name w as the block writes it
Cased(w, upper) ==
  IF upper THEN CHOOSE u \in DOMAIN LowerMap : LowerMap[u] = w ELSE w

\* <n>v</n> for a field that is present, nothing for one that is absent
Field(n, f, upper) == IF f.some THEN Elem(Cased(n, upper), f.val) ELSE <<>>

RecFields ==
  [action : {NoText, SomeText(<<"x">>), SomeText(<<"x", SP, "y">>)},
   justification : {NoText, SomeText(<<"y">>)},
   priority : {NoText, SomeText(<<"HIGH">>), SomeText(<<>>)}]

\* every sequence of at most k members of S
RECURSIVE SeqsOf(_, _)
SeqsOf(S, k) ==
  IF k = 0 THEN {<<>>}
  ELSE SeqsOf(S, k - 1) \cup {Append(q, x) : q \in SeqsOf(S, k - 1), x \in S}

Leads == {<<>>, <<"x", NL>>}

RecommendationBlocks ==
  [kind : {"recommendations"}, upper : BOOLEAN, lead : Leads,
   recs : SeqsOf(RecFields, MaxRecs)]

StatisticalBlocks ==
  [kind : {"statistical"}, upper : BOOLEAN, lead : Leads,
   summary : {NoText, SomeText(<<"y">>)},
   findings : SeqsOf({<<"x">>, <<"y", SP>>}, MaxFindings),
   impact : {NoText, SomeText(<<SP, "x">>)}]

RenderRec(r, upper) ==
  Elem(Cased("recommendation", upper),
       Field("action", r.action, upper)
       \o Field("justification", r.justification, upper)
       \o Field("priority", r.priority, upper))

RenderRecommendations(b) ==
  b.lead
  \o Elem(Cased("recommendations", b.upper),
          Concat([i \in 1..Len(b.recs) |-> RenderRec(b.recs[i], b.upper)]))

RenderFindings(fs, upper) ==
  IF fs = <<>> THEN <<>>
  ELSE Elem(Cased("findings", upper),
            Concat([i \in 1..Len(fs) |-> Elem(Cased("finding", upper), fs[i])]))

RenderStatistical(b) ==
  b.lead
  \o Elem(Cased("statistical_analysis", b.upper),
          Field("summary", b.summary, b.upper)
          \o RenderFindings(b.findings, b.upper)
          \o Field("business_impact", b.impact, b.upper))

Render(b) ==
  IF b.kind = "recommendations" THEN RenderRecommendations(b) ELSE RenderStatistical(b)

\* a call on the text of the block b, which source keeps
BlockCall(b) ==
  /\ text = Render(b)
  /\ pc = "start"
  /\ result = <<>>
  /\ err = "none"
  /\ response = Idle
  /\ doc0 = Idle
  /\ descents = 0
  /\ source = b

InitBlock == \E b \in RecommendationBlocks \cup StatisticalBlocks : BlockCall(b)

NextBlock ==
  \/ Dispatch
  \/ RunRecommendations
  \/ RunStatistical

SpecBlock == InitBlock /\ [][NextBlock]_vars

\* the value of a field, or the default when it is absent
ValueOr(f, default) == IF f.some THEN f.val ELSE <<default>>

\* the record of the i-th recommendation as the result shows it
ExpectedRecord(i, r) ==
  <<ToString(i), ". ">> \o ValueOr(r.action, "N/A")
    \o <<" (Priority: ">> \o ValueOr(r.priority, "Medium")
    \o <<")", NL, "   Justification: ">> \o ValueOr(r.justification, "N/A")

ExpectedRecommendations(recs) ==
  IF recs = <<>> THEN <<"No recommendations provided.">>
  ELSE <<"Strategic Recommendations:", NL, NL>>
       \o Join([i \in 1..Len(recs) |-> ExpectedRecord(i, recs[i])], <<NL, NL>>)

ExpectedStatistical(b) ==
  LET lines ==
        (IF b.summary.some THEN << <<"Summary: ">> \o Strip(b.summary.val) \o <<NL>> >>
         ELSE <<>>)
        \o (IF b.findings # <<>>
            THEN << <<"Key Findings:">> >>
                 \o [i \in 1..Len(b.findings) |->
                       <<ToString(i), ". ">> \o Strip(b.findings[i])]
                 \o << <<>> >>
            ELSE <<>>)
        \o (IF b.impact.some
            THEN << <<"Business Impact: ">> \o Strip(b.impact.val) \o <<NL>> >>
            ELSE <<>>)
  IN  IF lines = <<>>
      THEN <<"Could not extract statistical analysis from the response.">>
      ELSE Join(lines, <<NL>>)

Expected(b) ==
  IF b.kind = "recommendations" THEN ExpectedRecommendations(b.recs)
  ELSE ExpectedStatistical(b)

C7_UpperCaseTagsRecognized ==
  Ended /\ source.kind \in {"recommendations", "statistical"} /\ source.upper
    => err = "none" /\ result = Expected(source)

\* the same blocks written with lower-case tags do yield their fields
LowerCaseTagsRecognized ==
  Ended /\ source.kind \in {"recommendations", "statistical"} /\ ~source.upper
    => err = "none" /\ result = Expected(source)

----------------------------------------------------------------------------
(* SpecComparison: extract_template_response on comparison blocks written  *)
(* out from a summary, vendor blocks and a recommendation.  A vendor block *)
(* has an index and a layout: the sub-fields it holds, in their order.     *)

\* the number of vendor blocks of a comparison
MaxBlocks == 2

Layouts ==
  { <<"name", "performance">>,
    <<"name", "performance", "strengths">>,
    <<"name", "performance", "concerns">>,
    <<"name", "performance", "strengths", "concerns">>,
    <<"name", "performance", "concerns", "strengths">>,
    <<"performance", "name">>,
    <<"name", "strengths", "performance">>,
    <<"name">>,
    <<"performance">> }

VendorBlocks == [index : {1, 2, 11}, layout : Layouts]

\* the blocks of a comparison carry different indices
DistinctIndices(vs) ==
  \A i, j \in 1..Len(vs) : i # j => vs[i].index # vs[j].index

Comparisons ==
  [kind : {"comparison"}, summary : BOOLEAN, rec : BOOLEAN,
   sep : {<<>>, <<NL, SP>>},
   vendors : {vs \in SeqsOf(VendorBlocks, MaxBlocks) : DistinctIndices(vs)}]

\* the content of sub-field f of the vendor block with index i
FieldValue(i, f) ==
  CASE f = "name" -> IF i = 1 THEN <<"x">> ELSE <<"y", SP, "x">>
    [] f = "performance" -> <<"y">>
    [] f = "strengths" -> <<"x", SP>>
    [] OTHER -> <<"x", "y">>

RenderVendor(v, sep) ==
  Elem(Cased("vendor" \o ToString(v.index), TRUE),
       Concat([k \in 1..Len(v.layout) |->
                 sep \o Elem(Cased(v.layout[k], TRUE), FieldValue(v.index, v.layout[k]))])
       \o sep)

RenderComparison(b) ==
  Elem("COMPARISON_START",
       (IF b.summary THEN Elem("SUMMARY", <<SP, "y">>) ELSE <<>>)
       \o Concat([k \in 1..Len(b.vendors) |-> b.sep \o RenderVendor(b.vendors[k], b.sep)])
       \o (IF b.rec THEN Elem("RECOMMENDATION", <<"x">>) ELSE <<>>))

ComparisonCall(b) ==
  /\ text = RenderComparison(b)
  /\ pc = "start"
  /\ result = <<>>
  /\ err = "none"
  /\ response = Idle
  /\ doc0 = Idle
  /\ descents = 0
  /\ source = b

InitComparison == \E b \in Comparisons : ComparisonCall(b)

NextComparison ==
  \/ Dispatch
  \/ RunComparison

SpecComparison == InitComparison /\ [][NextComparison]_vars

\* the sub-field f is in the layout
Holds(v, f) == \E k \in 1..Len(v.layout) : v.layout[k] = f

\* the vendor analysis of a block that holds NAME and PERFORMANCE
ExpectedAnalysis(v) ==
  << <<"**">> \o Strip(FieldValue(v.index, "name")) \o <<"**">>,
     <<"Performance: ">> \o Strip(FieldValue(v.index, "performance")),
     <<"Strengths: ">> \o (IF Holds(v, "strengths")
                           THEN Strip(FieldValue(v.index, "strengths"))
                           ELSE <<"Not specified">>),
     <<"Concerns: ">> \o (IF Holds(v, "concerns")
                          THEN Strip(FieldValue(v.index, "concerns"))
                          ELSE <<"None identified">>) \o <<NL>> >>

\* the analyses of the blocks with index i..MaxVendors that hold NAME and
\* PERFORMANCE, in ascending order of the index
RECURSIVE ExpectedAnalyses(_, _)
ExpectedAnalyses(vs, i) ==
  IF i > MaxVendors THEN <<>>
  ELSE LET hit == {k \in 1..Len(vs) :
                     vs[k].index = i /\ Holds(vs[k], "name") /\ Holds(vs[k], "performance")}
       IN  (IF hit = {} THEN <<>> ELSE ExpectedAnalysis(vs[Min(hit)]))
           \o ExpectedAnalyses(vs, i + 1)

ExpectedComparison(b, t) ==
  LET lines ==
        (IF b.summary THEN << <<"Summary: ", "y", NL>> >> ELSE <<>>)
        \o ExpectedAnalyses(b.vendors, 1)
        \o (IF b.rec THEN << <<"Recommendation: ", "x">> >> ELSE <<>>)
  IN  IF lines = <<>> THEN clean_template_tags(t) ELSE Join(lines, <<NL>>)

\* C8: the comparison extractor emits the summary if there is one, then one
\* vendor analysis for each index 1..10, in ascending order, whose VENDORi
\* block has both NAME and PERFORMANCE (strengths "Not specified" and
\* concerns "None identified" when absent), then the recommendation if
\* there is one; blocks with an index above 10 or without NAME or
\* PERFORMANCE add nothing; the tag-stripped text is the result only when
\* none of the three is found.
C8_ComparisonFields ==
  Ended /\ source.kind = "comparison"
    => err = "none" /\ result = ExpectedComparison(source, text)

\* every vendor block is laid out as NAME, PERFORMANCE, then STRENGTHS if
\* any, then CONCERNS if any, or lacks NAME or PERFORMANCE
InOrder(v) ==
  v.layout \in { <<"name", "performance">>,
                 <<"name", "performance", "strengths">>,
                 <<"name", "performance", "concerns">>,
                 <<"name", "performance", "strengths", "concerns">>,
                 <<"name">>, <<"performance">> }

\* what does hold: C8 for comparisons whose vendor blocks are laid out in
\* the order NAME, PERFORMANCE, STRENGTHS, CONCERNS
ComparisonFieldsInOrder ==
  Ended /\ source.kind = "comparison"
        /\ (\A k \in 1..Len(source.vendors) : InOrder(source.vendors[k]))
    => err = "none" /\ result = ExpectedComparison(source, text)

----------------------------------------------------------------------------
(* SpecSynthesis: extract_synthesis_template on texts put together from    *)
(* answer and response fields, loose tags and words.                       *)

\* the number of pieces of a synthesis text
MaxPieces == 4

SynthesisParts ==
  { Elem("answer", <<SP, "x">>),
    Elem("RESPONSE", <<"y", NL>>),
    Elem("ANSWER", <<"y">>),
    OpenTag("answer"), CloseTag("answer"),
    OpenTag("response"), CloseTag("response"),
    <<"x", SP>> }

SynthesisCall(t) ==
  /\ text = t
  /\ pc = "synthesis"
  /\ result = <<>>
  /\ err = "none"
  /\ response = Idle
  /\ doc0 = Idle
  /\ descents = 0
  /\ source = [kind |-> "synthesis"]

InitSynthesis == \E t \in TextsOf(SynthesisParts, MaxPieces) : SynthesisCall(t)

NextSynthesis == RunSynthesis

SpecSynthesis == InitSynthesis /\ [][NextSynthesis]_vars

\* the positions in low at which the tag tg starts
TagsAt(low, tg) == {i \in 1..Len(low) : OccursAt(low, tg, i)}

\* <<i, j>>: an opening tag starts at i and the first closing tag after it
\* starts at j
FieldsBetween(opens, closes) ==
  {f \in opens \X closes :
     /\ f[2] >= f[1] + 3
     /\ \A k \in closes : ~(f[1] + 3 <= k /\ k < f[2])}

\* the fields of n in t, whatever the case of the letters of the tags
FieldsOf(t, n) ==
  FieldsBetween(TagsAt(LowerSeq(t), OpenTag(n)), TagsAt(LowerSeq(t), CloseTag(n)))

\* the field of n that starts first
FirstField(t, n) ==
  CHOOSE f \in FieldsOf(t, n) : \A g \in FieldsOf(t, n) : f[1] <= g[1]

\* the trimmed content of the first field of n
FirstContent(t, n) == Strip(Slice(t, FirstField(t, n)[1] + 3, FirstField(t, n)[2] - 1))

\* C9: synthesis extraction returns the trimmed content of the first answer
\* field if there is one, otherwise the trimmed content of the first
\* response field if there is one, otherwise the tag-stripped text; an
\* answer field wins over a response field wherever the two stand.
C9_AnswerThenResponse ==
  pc = "done" /\ source.kind = "synthesis"
    => /\ err = "none"
       /\ result = IF FieldsOf(text, "answer") # {} THEN FirstContent(text, "answer")
                   ELSE IF FieldsOf(text, "response") # {} THEN FirstContent(text, "response")
                   ELSE clean_template_tags(text)

\* a response field stands before an answer field with another content, and
\* the content of the answer field is returned
C9_Witness ==
  /\ pc = "done"
  /\ source.kind = "synthesis"
  /\ FieldsOf(text, "answer") # {}
  /\ FieldsOf(text, "response") # {}
  /\ FirstField(text, "response")[2] < FirstField(text, "answer")[1]
  /\ FirstContent(text, "response") # FirstContent(text, "answer")
  /\ result = FirstContent(text, "answer")
  /\ result # <<>>

----------------------------------------------------------------------------
(* SpecResponse: extract_text_from_response on documents: None, strings,   *)
(* numbers, dictionaries nested up to MaxNest deep and dictionaries that   *)
(* hold themselves.  A document is a record; a dictionary lists its keys   *)
(* in insertion order, with its values in the same order.                  *)

\* the nesting depth of a document
MaxNest == 6

\* the interpreter's recursion limit (sys.getrecursionlimit()), scaled down:
\* more calls than any document of finite depth needs here
MaxCalls == 8

NoneDoc == [kind |-> "none", text |-> <<>>, num |-> 0, keys |-> <<>>, vals |-> <<>>]
StrDoc(t) == [kind |-> "str", text |-> t, num |-> 0, keys |-> <<>>, vals |-> <<>>]
IntDoc(n) == [kind |-> "int", text |-> <<>>, num |-> n, keys |-> <<>>, vals |-> <<>>]
DictDoc(ks, vs) == [kind |-> "dict", text |-> <<>>, num |-> 0, keys |-> ks, vals |-> vs]

\* as a value of a dictionary: the dictionary of the outermost call itself
SelfDoc == [kind |-> "self", text |-> <<>>, num |-> 0, keys |-> <<>>, vals |-> <<>>]

Leaves ==
  { NoneDoc, StrDoc(<<>>), StrDoc(<<"x", SP, LT, SP, "y">>),
    StrDoc(Elem("answer", <<"x">>)),
    StrDoc(OpenTag("x")),
    StrDoc(Elem("statistical_analysis", Elem("findings", Elem("finding", <<>>)))),
    IntDoc(0), IntDoc(7), DictDoc(<<>>, <<>>) }

\* the dictionaries built around the document d
Around(d) ==
  { DictDoc(<<"answer">>, <<d>>),
    DictDoc(<<"result", "text">>, <<StrDoc(<<"y">>), d>>),
    DictDoc(<<"answer", "response", "other">>, <<StrDoc(<<>>), d, StrDoc(<<"x">>)>>) }

RECURSIVE DocsOf(_)
DocsOf(k) ==
  IF k = 0 THEN Leaves
  ELSE Leaves \cup UNION {Around(d) : d \in DocsOf(k - 1)}

\* bool(d)
Truthy(d) ==
  CASE d.kind = "none" -> FALSE
    [] d.kind = "str" -> d.text # <<>>
    [] d.kind = "int" -> d.num # 0
    [] d.kind = "self" -> TRUE
    [] OTHER -> d.keys # <<>>

\* ['answer', 'text', 'content', 'response', 'result']
Preference == <<"answer", "text", "content", "response", "result">>

\* d[key]
Get(d, key) == d.vals[CHOOSE i \in 1..Len(d.keys) : d.keys[i] = key]

\* field in response and response[field]
Usable(d, key) ==
  /\ \E i \in 1..Len(d.keys) : d.keys[i] = key
  /\ Truthy(Get(d, key))

\* the places in the preference order of the usable fields of d
UsablePlaces(d) == {p \in 1..Len(Preference) : Usable(d, Preference[p])}

\* repr(d) for the values a dictionary holds, str(d) for d itself
RECURSIVE Repr(_)
ReprEntries(d, shown) ==
  Join([i \in 1..Len(d.keys) |-> <<"'", d.keys[i], "'", ":", SP>> \o shown[i]], <<",", SP>>)

Repr(d) ==
  CASE d.kind = "none" -> <<"None">>
    [] d.kind = "str" -> <<"'">> \o d.text \o <<"'">>
    [] d.kind = "int" -> <<ToString(d.num)>>
    [] d.kind = "self" -> <<"{...}">>
    [] OTHER -> <<"{">> \o ReprEntries(d, [i \in 1..Len(d.vals) |-> Repr(d.vals[i])]) \o <<"}">>

\* '<' in response and '>' in response
LooksTemplated(t) ==
  /\ \E i \in 1..Len(t) : t[i] = LT
  /\ \E i \in 1..Len(t) : t[i] = GT

\* extract_text_from_response(d) is called from outside
ResponseCall(d) ==
  /\ response = d
  /\ doc0 = d
  /\ descents = 0
  /\ pc = "response"
  /\ text = <<>>
  /\ result = <<>>
  /\ err = "none"
  /\ source = [kind |-> "response"]

InitResponse == \E d \in DocsOf(MaxNest) \cup Around(SelfDoc) : ResponseCall(d)

\* extract_text_from_response returns v
Return(v) ==
  /\ pc' = "returned"
  /\ result' = v
  /\ UNCHANGED <<text, err, response, doc0, descents, source>>

\* if response is None: return ""
ReturnEmpty ==
  /\ pc = "response"
  /\ response.kind = "none"
  /\ Return(<<>>)

\* a string without '<' or without '>' is returned as it is
ReturnPlain ==
  /\ pc = "response"
  /\ response.kind = "str"
  /\ ~LooksTemplated(response.text)
  /\ Return(response.text)

\* extract_template_response(response) is called
CallTemplate ==
  /\ pc = "response"
  /\ response.kind = "str"
  /\ LooksTemplated(response.text)
  /\ pc' = "start"
  /\ text' = response.text
  /\ UNCHANGED <<result, err, response, doc0, descents, source>>

\* extract_template_response has returned: its result if that is not empty
\* and differs from the string, the string otherwise
ReturnExtracted ==
  /\ pc = "done"
  /\ source.kind = "response"
  /\ Return(IF result # <<>> /\ result # text THEN result ELSE text)

\* the value v as an argument: a dictionary that holds itself is passed on
Resolve(v) == IF v.kind = "self" THEN doc0 ELSE v

\* the recursive call on the first usable field; what it returns is
\* returned unchanged
Descend ==
  /\ pc = "response"
  /\ response.kind = "dict"
  /\ UsablePlaces(response) # {}
  /\ descents < MaxCalls
  /\ response' = Resolve(Get(response, Preference[Min(UsablePlaces(response))]))
  /\ descents' = descents + 1
  /\ UNCHANGED <<text, pc, result, err, doc0, source>>

\* the recursive call that exceeds the recursion limit raises
Overflow ==
  /\ pc = "response"
  /\ response.kind = "dict"
  /\ UsablePlaces(response) # {}
  /\ descents >= MaxCalls
  /\ Finish(Raises("RecursionError"))

\* str(response) for a dictionary without usable field and for a number
ReturnStr ==
  /\ pc = "response"
  /\ \/ response.kind = "int"
     \/ response.kind = "dict" /\ UsablePlaces(response) = {}
  /\ Return(Repr(response))

NextResponse ==
  \/ ReturnEmpty
  \/ ReturnPlain
  \/ CallTemplate
  \/ Dispatch
  \/ RunSynthesis
  \/ RunStatistical
  \/ ReturnExtracted
  \/ Descend
  \/ Overflow
  \/ ReturnStr

SpecResponse == InitResponse /\ [][NextResponse]_vars

Max(S) == CHOOSE x \in S : \A y \in S : y <= x

\* the depth of nesting of the dictionaries of d
RECURSIVE Nest(_)
Nest(d) ==
  IF d.kind # "dict" \/ d.keys = <<>> THEN 0
  ELSE 1 + Max({Nest(d.vals[i]) : i \in 1..Len(d.vals)})

\* the document reached from d by k descents, each into the value of the
\* first key in the preference order that is present with a non-empty value
RECURSIVE Follow(_, _)
Follow(d, k) ==
  IF k = 0 THEN d
  ELSE Follow(Get(d, CHOOSE key \in {Preference[p] : p \in 1..Len(Preference)} :
                       /\ Usable(d, key)
                       /\ \A p, q \in 1..Len(Preference) :
                            Preference[q] = key /\ Usable(d, Preference[p]) => q <= p),
              k - 1)

\* the dictionary holds itself
HoldsItself(d) == \E i \in 1..Len(d.vals) : d.vals[i].kind = "self"

\* C10: extract_text_from_response returns on every input, and its
\* recursion is never deeper than the number of preference keys: no chain
\* of descents cycles or exceeds that bound.
C10_DepthBoundedByKeys ==
  source.kind = "response"
    => /\ descents <= Len(Preference)
       /\ err # "RecursionError"

\* what does hold: every descent goes into the value of the first usable
\* key, and on a document of finite depth the recursion is as deep as the
\* document is nested at most
DepthBoundedByNesting ==
  source.kind = "response" /\ ~HoldsItself(doc0)
    => /\ response = Follow(doc0, descents)
       /\ descents + Nest(response) <= Nest(doc0)
       /\ err # "RecursionError"

\* what does hold: on a dictionary that holds itself under its first usable
\* key nothing is ever returned
NoReturnFromCycle ==
  source.kind = "response" /\ HoldsItself(doc0) => pc # "returned"

----------------------------------------------------------------------------
(* VendorResolver.resolve(query): the cascade exact, alias, normalized,    *)
(* fuzzy over the vendor names of the data source.  A name is a sequence   *)
(* of characters.  The data source holds the names in source.records; a    *)
(* query of it fails while source.up is FALSE.  source.names is the        *)
(* snapshot the call took, source.tried the stages it has evaluated, and   *)
(* source.strategy the stage that produced the result.                     *)

Letters == {"A", "B", "a", "b"}

\* str.upper() on a character
UpperChar(c) ==
  CASE c = "a" -> "A"
    [] c = "b" -> "B"
    [] OTHER -> c

\* the characters of s that are letters, digits or spaces, in upper case
RECURSIVE UpperKept(_)
UpperKept(s) ==
  IF s = <<>> THEN <<>>
  ELSE IF s[1] \in Letters \cup Whitespace
       THEN <<UpperChar(s[1])>> \o UpperKept(Tail(s))
       ELSE UpperKept(Tail(s))

\* Normalizer.normalize(name): upper case, the characters outside letters,
\* digits and spaces stripped, whitespace collapsed, trimmed
normalize(name) == Strip(CollapseWhitespace(UpperKept(name)))

\* the alias configuration: alias |-> canonical name
KnownMappings ==
  { [alias |-> <<"B", "A">>, canonical |-> <<"A", "B", SP, "A", "B", ".">>],
    [alias |-> <<"A", "A">>, canonical |-> <<"A", "A", "A", "A", "A">>] }

NoAlias == [found |-> FALSE, canonical |-> <<>>]

\* the entries whose alias has the normalized key
AliasesOf(key) == {e \in KnownMappings : normalize(e.alias) = key}

\* AliasTable.lookup(name): on the normalized form of the name and of the
\* stored aliases
AliasFor(hits) ==
  IF hits = {} THEN NoAlias
  ELSE [found |-> TRUE, canonical |-> (CHOOSE e \in hits : TRUE).canonical]

lookup(name) == AliasFor(AliasesOf(normalize(name)))

\* one row of the edit-distance table: the distances of a prefix of a that
\* ends in the character c to the prefixes of b; prev is the row before and
\* row the part of the new row worked out so far
RECURSIVE RowAfter(_, _, _, _)
RowAfter(prev, c, b, row) ==
  IF Len(row) > Len(b) THEN row
  ELSE RowAfter(prev, c, b,
                Append(row, Min({prev[Len(row) + 1] + 1,
                                 row[Len(row)] + 1,
                                 prev[Len(row)] + (IF c = b[Len(row)] THEN 0 ELSE 1)})))

\* the last row of the table, from the row prev of the first i - 1
\* characters of a
RECURSIVE LastRow(_, _, _, _)
LastRow(a, b, i, prev) ==
  IF i > Len(a) THEN prev
  ELSE LastRow(a, b, i + 1, RowAfter(prev, a[i], b, <<i>>))

\* the edit distance of a and b
Levenshtein(a, b) == LastRow(a, b, 1, [j \in 1..(Len(b) + 1) |-> j - 1])[Len(b) + 1]

\* the acceptance threshold of the fuzzy stage, in hundredths
Threshold == 80

\* the similarity of two keys in hundredths: 1 - distance / longer length
Ratio(dist, longest) == IF longest = 0 THEN 100 ELSE ((longest - dist) * 100) \div longest

Similarity(a, b) == Ratio(Levenshtein(a, b), Max({Len(a), Len(b)}))

\* the records equal to the query, in data-source order
ExactCandidates(names, q) ==
  SelectSeq(names, LAMBDA n : n = q)

\* the records whose normalized key is key, in data-source order
NormalizedCandidates(names, key) ==
  SelectSeq(names, LAMBDA n : normalize(n) = key)

\* the places of the snapshot that score at or above the threshold
FuzzyPlaces(names, key) ==
  {i \in 1..Len(names) : Similarity(key, normalize(names[i])) >= Threshold}

\* the place that comes first: the highest score, the earliest place in a tie
BestPlace(names, key, places) ==
  CHOOSE i \in places : \A j \in places :
    \/ Similarity(key, normalize(names[i])) > Similarity(key, normalize(names[j]))
    \/ /\ Similarity(key, normalize(names[i])) = Similarity(key, normalize(names[j]))
       /\ i <= j

\* the records at the places, by descending score, ties in data-source order
RECURSIVE Ranked(_, _, _)
Ranked(names, key, places) ==
  IF places = {} THEN <<>>
  ELSE <<names[BestPlace(names, key, places)]>>
       \o Ranked(names, key, places \ {BestPlace(names, key, places)})

FuzzyCandidates(names, key) == Ranked(names, key, FuzzyPlaces(names, key))

\* resolve returns the candidates found by stage st
Resolved(found, st) ==
  /\ pc' = "done"
  /\ result' = found
  /\ source' = [source EXCEPT !.strategy = st, !.tried = Append(source.tried, st)]
  /\ UNCHANGED <<text, err, response, doc0, descents>>

\* stage st found nothing: on to the stage at position p
Continue(st, p) ==
  /\ pc' = p
  /\ source' = [source EXCEPT !.tried = Append(source.tried, st)]
  /\ UNCHANGED <<text, result, err, response, doc0, descents>>

\* a plausible slip: the cascade is not stopped by a stage that found
\* candidates
Stage_falls_through(found, st, p) == Continue(st, p)

\* the candidates of stage st end the cascade if there are any
Stage(found, st, p) == IF found # <<>> THEN Resolved(found, st) ELSE Continue(st, p)

\* a plausible slip: the failed query is swallowed and nothing is returned
Unavailable_returns_empty == Resolved(<<>>, "none")

\* a query of the data source that cannot be performed leaves resolve as a
\* failure
Unavailable ==
  /\ pc' = "raised"
  /\ err' = "DataSourceUnavailable"
  /\ source' = [source EXCEPT !.failed = TRUE]
  /\ UNCHANGED <<text, result, response, doc0, descents>>

\* list_vendor_names(): the snapshot of the call
Snapshot ==
  /\ pc = "resolve"
  /\ IF source.up
     THEN /\ pc' = "exact"
          /\ source' = [source EXCEPT !.names = source.records, !.queried = TRUE]
          /\ UNCHANGED <<text, result, err, response, doc0, descents>>
     ELSE Unavailable

ExactStage ==
  /\ pc = "exact"
  /\ Stage(ExactCandidates(source.names, text), "exact", "alias")

\* the alias stage up to the validation of the canonical name
AliasStage ==
  /\ pc = "alias"
  /\ IF lookup(text).found
     THEN /\ pc' = "validate"
          /\ UNCHANGED <<text, result, err, response, doc0, descents, source>>
     ELSE Continue("alias", "normalized")

\* a plausible slip: the alias table is trusted without the look into the
\* data source
ValidateWith_trusting(canonical) == Resolved(<<canonical>>, "alias")

\* the read query that looks for the canonical name among the records
ValidateWith(canonical) ==
  IF \E i \in 1..Len(source.records) : source.records[i] = canonical
  THEN Resolved(<<canonical>>, "alias")
  ELSE Continue("alias", "normalized")

ValidateAlias ==
  /\ pc = "validate"
  /\ IF source.up THEN ValidateWith(lookup(text).canonical) ELSE Unavailable

NormalizedStage ==
  /\ pc = "normalized"
  /\ Stage(NormalizedCandidates(source.names, normalize(text)), "normalized", "fuzzy")

\* the last stage returns what it found, be it nothing
FuzzyStage ==
  /\ pc = "fuzzy"
  /\ Resolved(FuzzyCandidates(source.names, normalize(text)), "fuzzy")

\* the data source becomes unreachable while the call runs
Outage ==
  /\ pc \in {"exact", "alias", "validate"}
  /\ source.up
  /\ source' = [source EXCEPT !.up = FALSE]
  /\ UNCHANGED <<text, pc, result, err, response, doc0, descents>>

----------------------------------------------------------------------------
(* SpecResolve: resolve on every query of a small vocabulary against every *)
(* data source of at most MaxRecords different vendor names, reachable or  *)
(* not, and lost or not while the call runs.                               *)

\* the number of vendor names of the data source
MaxRecords == 3

VendorNames ==
  { <<"A", "B", "A", "B", "A">>,
    <<"A", "b", "a", "b", "a">>,
    <<"A", "B", "A", "B", "B">>,
    <<"A", "B", "A", "B", "B", "B">>,
    <<"A", "B", SP, "A", "B", ".">>,
    <<"B", "A">>,
    <<"A", "a">> }

Queries ==
  VendorNames \cup
  { <<"a", "b", "a", "b", "a">>,
    <<"A", "B", "B", "B", "B">>,
    <<"b", ".", "a">>,
    <<"A", "A">>,
    <<SP, "a", "b", SP, SP, "a", "b">> }

\* the names of a data source differ from one another
Different(ns) == \A i, j \in 1..Len(ns) : i # j => ns[i] # ns[j]

DataSources == {ns \in SeqsOf(VendorNames, MaxRecords) : Different(ns)}

ResolveCall(q, ns, u) ==
  /\ text = q
  /\ pc = "resolve"
  /\ result = <<>>
  /\ err = "none"
  /\ response = Idle
  /\ doc0 = Idle
  /\ descents = 0
  /\ source = [kind |-> "resolve", records |-> ns, up |-> u, names |-> <<>>,
               queried |-> FALSE, failed |-> FALSE, tried |-> <<>>, strategy |-> "none"]

InitResolve == \E q \in Queries, ns \in DataSources, u \in BOOLEAN : ResolveCall(q, ns, u)

NextResolve ==
  \/ Snapshot
  \/ ExactStage
  \/ AliasStage
  \/ ValidateAlias
  \/ NormalizedStage
  \/ FuzzyStage
  \/ Outage

SpecResolve == InitResolve /\ [][NextResolve]_vars

\* the order of the cascade
Cascade == <<"exact", "alias", "normalized", "fuzzy">>

\* the name is stored in the data source
Stored(n) == \E i \in 1..Len(source.records) : source.records[i] = n

\* the canonical names the alias configuration gives for the query
Canonicals(q) == {e.canonical : e \in {m \in KnownMappings : normalize(m.alias) = normalize(q)}}

\* the places of the data source a stage accepts for the query
PlacesOf(st, q) ==
  CASE st = "exact" -> {i \in 1..Len(source.records) : source.records[i] = q}
    [] st = "alias" -> {i \in 1..Len(source.records) : source.records[i] \in Canonicals(q)}
    [] st = "normalized" ->
         {i \in 1..Len(source.records) : normalize(source.records[i]) = normalize(q)}
    [] OTHER ->
         {i \in 1..Len(source.records) :
            Similarity(normalize(q), normalize(source.records[i])) >= Threshold}

\* res lists the records at the places, each once
Lists(res, places) ==
  /\ Len(res) = Cardinality(places)
  /\ \A i \in places : \E k \in 1..Len(res) : res[k] = source.records[i]

\* the place of a stored name
PlaceOf(n) == CHOOSE i \in 1..Len(source.records) : source.records[i] = n

\* res is in data-source order
InSourceOrder(res) ==
  \A k \in 1..(Len(res) - 1) : PlaceOf(res[k]) < PlaceOf(res[k + 1])

\* res is in descending order of score, ties in data-source order
InScoreOrder(res, q) ==
  \A k \in 1..(Len(res) - 1) :
    \/ Similarity(normalize(q), normalize(res[k])) > Similarity(normalize(q), normalize(res[k + 1]))
    \/ /\ Similarity(normalize(q), normalize(res[k])) = Similarity(normalize(q), normalize(res[k + 1]))
       /\ PlaceOf(res[k]) < PlaceOf(res[k + 1])

\* C11: resolve is a strict cascade exact, alias, normalized, fuzzy: the
\* stages are evaluated in this order up to the first that yields a
\* candidate, the result is the candidate list of that stage alone, and a
\* query equal to a stored name returns exactly that name by the exact
\* stage, whatever the later stages would yield.
C11_StrictCascade ==
  pc = "done" /\ source.kind = "resolve"
    => /\ source.tried = SubSeq(Cascade, 1, Len(source.tried))
       /\ source.tried # <<>>
       /\ source.strategy = source.tried[Len(source.tried)]
       /\ \A k \in 1..(Len(source.tried) - 1) : PlacesOf(source.tried[k], text) = {}
       /\ Lists(result, PlacesOf(source.strategy, text))
       /\ source.strategy # "fuzzy" => result # <<>> /\ InSourceOrder(result)
       /\ source.strategy = "fuzzy" => InScoreOrder(result, text)
       /\ Stored(text) => result = <<text>> /\ source.tried = <<"exact">>

\* the query is a stored name, another stored name has its normalized key
\* and a third is within the fuzzy threshold: the stored name alone is
\* returned
C11_Witness ==
  /\ pc = "done"
  /\ source.kind = "resolve"
  /\ Stored(text)
  /\ Cardinality(PlacesOf("normalized", text)) > 1
  /\ Cardinality(PlacesOf("fuzzy", text)) > 2
  /\ result = <<text>>

\* the query is an alias whose canonical name is stored and a stored name
\* has the normalized key of the query: the canonical name alone is returned
AliasShadowsNormalized ==
  /\ pc = "done"
  /\ source.kind = "resolve"
  /\ source.strategy = "alias"
  /\ PlacesOf("normalized", text) # {}
  /\ PlacesOf("normalized", text) # PlacesOf("alias", text)

\* C12: a query that is a known alias resolves to the canonical name of the
\* alias only if that name is stored in the data source; if it is not, the
\* alias result is dropped and the normalized and the fuzzy stage go on; so
\* every name resolve returns is a stored name.
C12_AliasValidated ==
  pc = "done" /\ source.kind = "resolve"
    => /\ \A k \in 1..Len(result) : Stored(result[k])
       /\ source.strategy = "alias"
            => \E c \in Canonicals(text) : Stored(c) /\ result = <<c>>
       /\ ~Stored(text) /\ (\E c \in Canonicals(text) : Stored(c))
            => source.strategy = "alias"
       /\ ~Stored(text) /\ Canonicals(text) # {} /\ (\A c \in Canonicals(text) : ~Stored(c))
            => /\ SubSeq(Cascade, 1, 3) = SubSeq(source.tried, 1, 3)
               /\ source.strategy \in {"normalized", "fuzzy"}

\* the query is an alias of a name that is not stored, and a later stage
\* finds a stored name for it
C12_Witness ==
  /\ pc = "done"
  /\ source.kind = "resolve"
  /\ Canonicals(text) # {}
  /\ \A c \in Canonicals(text) : ~Stored(c)
  /\ source.strategy = "normalized"
  /\ result # <<>>

\* the query is an alias of a stored name: the canonical name is returned
AliasResolved ==
  /\ pc = "done"
  /\ source.kind = "resolve"
  /\ source.strategy = "alias"
  /\ result # <<text>>

\* the call has looked for the canonical name of an alias in the data source
Validated ==
  /\ Len(source.tried) >= 2
  /\ Canonicals(text) # {}

\* C13: resolve tells "no match" from "data source unavailable": a call
\* that returns has taken its snapshot, and has validated its alias if it
\* came to that, with the data source reachable, it returns no error, and
\* it returns the empty result when no stage has a candidate; a call whose
\* query of the data source failed ends as a failure, with no result.
C13_NoMatchIsNotFailure ==
  source.kind = "resolve"
    => /\ pc = "done"
            => /\ err = "none"
               /\ source.queried
               /\ ~source.failed
               /\ Validated => source.up
               /\ (\A k \in 1..Len(Cascade) : PlacesOf(Cascade[k], text) = {}) => result = <<>>
               /\ result = <<>> => source.tried = Cascade
       /\ pc = "raised"
            => /\ err = "DataSourceUnavailable"
               /\ source.failed
               /\ ~source.up
               /\ result = <<>>
       /\ source.failed => pc = "raised"

\* the data source holds names, was queried, and no stage has a candidate
C13_Witness ==
  /\ pc = "done"
  /\ source.kind = "resolve"
  /\ source.records # <<>>
  /\ source.queried
  /\ result = <<>>
  /\ err = "none"

\* the snapshot was taken and the validation of the alias could not be done
FailedAtValidation ==
  /\ pc = "raised"
  /\ source.kind = "resolve"
  /\ source.queried

----------------------------------------------------------------------------
(* SpecString: extract_text_from_response on strings: the texts put        *)
(* together from parts of the five dialects.                               *)

InitString == \E t \in TextsOf(DialectParts, MaxParts) : ResponseCall(StrDoc(t))

NextString ==
  \/ ReturnPlain
  \/ CallTemplate
  \/ Dispatch
  \/ RunRecommendations
  \/ RunComparison
  \/ RunStatistical
  \/ RunSynthesis
  \/ ReturnExtracted

SpecString == InitString /\ [][NextString]_vars

\* the string s is what a string input t gives: the result of template
\* extraction if that is not empty and differs from t, else t itself
ExtractedOrInput(s, t, extracted) ==
  /\ s = IF extracted # <<>> /\ extracted # t THEN extracted ELSE t
  /\ t # <<>> => s # <<>>

\* C14: for a string input, extract_text_from_response returns the result
\* of extract_template_response if that is not empty and differs from the
\* input, and the input unchanged otherwise, tags and all; a string input
\* that is not empty never gives an empty output.
C14_StringInput ==
  source.kind = "response" /\ doc0.kind = "str"
    => /\ pc # "raised"
       /\ pc = "returned"
            => IF LooksTemplated(doc0.text)
               THEN ExtractedOrInput(result, doc0.text, extract_template_response(doc0.text).val)
               ELSE result = doc0.text

\* what does hold: C14 for the calls in which template extraction does not
\* raise
StringInputUnlessRaised ==
  source.kind = "response" /\ doc0.kind = "str" /\ pc = "returned"
    => IF LooksTemplated(doc0.text)
       THEN ExtractedOrInput(result, doc0.text, extract_template_response(doc0.text).val)
       ELSE result = doc0.text

\* template extraction gave the empty string and the input is returned
TagsOnlyReturned ==
  /\ pc = "returned"
  /\ source.kind = "response"
  /\ doc0.kind = "str"
  /\ LooksTemplated(doc0.text)
  /\ clean_template_tags(doc0.text) = <<>>
  /\ result = doc0.text

----------------------------------------------------------------------------
(* run_tests_detailed.py: run_test, one step for each call it makes to the *)
(* outside (the request, the decoding of the body, the verification        *)
(* query).  source holds the module's globals TEST_RESULTS, SUCCESS_COUNT  *)
(* and FAILURE_COUNT, and of the call under way result_log, whether it was *)
(* given a verification_query, and the decoded body; err is the exception  *)
(* that is on its way out of run_test.  Of result_log the model keeps the  *)
(* status, the status of the verification, and in answer what its          *)
(* "response" holds.                                                       *)

\* result_log as run_test sets it up: "status": "FAILURE", "response": {},
\* "verification": {"status": "NOT_RUN"}
NewLog == [status |-> "FAILURE", answer |-> "empty", verification |-> "NOT_RUN"]

\* the body before response.json() has returned
NoBody == [kind |-> "other", vendors |-> <<>>]

\* run_test is called, with a verification_query or without
Begin(q) ==
  /\ source' = [source EXCEPT !.result_log = NewLog, !.query = q, !.body = NoBody,
                              !.calls = source.calls + 1]
  /\ pc' = "request"
  /\ UNCHANGED <<text, result, err, response, doc0, descents>>

\* the rest of the try block is left for the finally clause, the
\* exception e on its way out (e = "none": nothing is)
Leave(src, e) ==
  /\ source' = src
  /\ err' = e
  /\ pc' = "finally"
  /\ UNCHANGED <<text, result, response, doc0, descents>>

\* requests.request returns a response with a 2xx status code
RequestSucceeds ==
  /\ pc = "request"
  /\ source' = [source EXCEPT !.result_log.status = "SUCCESS",
                              !.result_log.answer = "status_code",
                              !.SUCCESS_COUNT = source.SUCCESS_COUNT + 1]
  /\ pc' = "json"
  /\ UNCHANGED <<text, result, err, response, doc0, descents>>

\* requests.request returns a response with another status code
RequestRejected ==
  /\ pc = "request"
  /\ Leave([source EXCEPT !.FAILURE_COUNT = source.FAILURE_COUNT + 1,
                          !.result_log.answer = "text"], "none")

\* requests.request raises a RequestException: except clause of run_test
RequestFails ==
  /\ pc = "request"
  /\ Leave([source EXCEPT !.FAILURE_COUNT = source.FAILURE_COUNT + 1,
                          !.result_log.answer = "error"], "none")

\* requests.request raises an exception that is no RequestException (the
\* ValueError for a timeout of 0, KeyboardInterrupt): no except clause
RequestRaises ==
  /\ pc = "request"
  /\ Leave([source EXCEPT !.missed = source.missed + 1], "ValueError")

\* the values of the vendor lists; "None" is None
VendorValues == {"x", "y", "None"}

\* the number of vendor values of a list
MaxVendorValues == 2

\* response.json(): an object with a "vendors" list, each of its items an
\* object whose "vendor" is a string or is missing, or another JSON value
Bodies ==
  {[kind |-> "object", vendors |-> vs] : vs \in SeqsOf(VendorValues, MaxVendorValues)}
  \cup {[kind |-> "other", vendors |-> <<>>]}

\* response.json() returns the body b
JsonReturns(b) ==
  /\ source' = [source EXCEPT !.body = b, !.result_log.answer = "body"]
  /\ pc' = IF source.query THEN "verify" ELSE "finally"
  /\ UNCHANGED <<text, result, err, response, doc0, descents>>

JsonDecodes ==
  /\ pc = "json"
  /\ \E b \in Bodies : JsonReturns(b)

\* response.json() raises json.JSONDecodeError: inner except clause
JsonInvalid ==
  /\ pc = "json"
  /\ Leave([source EXCEPT !.result_log.answer = "not valid JSON"], "none")

\* response.json() raises the JSONDecodeError of requests where that is a
\* RequestException and no json.JSONDecodeError (requests built on
\* simplejson): the outer except clause
JsonInvalidAsRequestException ==
  /\ pc = "json"
  /\ Leave([source EXCEPT !.FAILURE_COUNT = source.FAILURE_COUNT + 1,
                          !.result_log.answer = "error",
                          !.doubled = source.doubled + 1], "none")

\* sorted(values) raises TypeError: None is compared
SortRaises(values) ==
  /\ Len(values) >= 2
  /\ \E i \in 1..Len(values) : values[i] = "None"

\* the number of times v is in values
Occurrences(values, v) == Cardinality({i \in 1..Len(values) : values[i] = v})

\* sorted(actual_vendors) == sorted(expected_vendors)
SortedEqual(actual, expected) ==
  \A v \in VendorValues : Occurrences(actual, v) = Occurrences(expected, v)

\* the verification has the given status
Verified(st) == [source EXCEPT !.result_log.verification = st]

\* the verification failed: the status is downgraded and the count moved
Downgraded ==
  [source EXCEPT !.result_log.verification = "FAILED",
                 !.result_log.status = "FAILURE",
                 !.SUCCESS_COUNT = source.SUCCESS_COUNT - 1,
                 !.FAILURE_COUNT = source.FAILURE_COUNT + 1]

\* the verification against the rows of get_sql_verification_data, which
\* are [] also when the query failed
VerifyAgainst(expected) ==
  IF expected = <<>> THEN Leave(Verified("SKIPPED"), "none")
  ELSE IF source.body.kind # "object" THEN Leave(source, "AttributeError")
  ELSE IF SortRaises(source.body.vendors) \/ SortRaises(expected)
       THEN Leave(source, "TypeError")
  ELSE IF SortedEqual(source.body.vendors, expected) THEN Leave(Verified("PASSED"), "none")
  ELSE Leave(Downgraded, "none")

Verify ==
  /\ pc = "verify"
  /\ \E expected \in SeqsOf(VendorValues, MaxVendorValues) : VerifyAgainst(expected)

\* finally: TEST_RESULTS.append(result_log); run_test returns, or the
\* exception leaves it and the caller goes on
Finally ==
  /\ pc = "finally"
  /\ source' = [source EXCEPT !.TEST_RESULTS = Append(source.TEST_RESULTS, source.result_log),
                              !.escaped = source.escaped + (IF err = "none" THEN 0 ELSE 1)]
  /\ err' = "none"
  /\ pc' = "idle"
  /\ UNCHANGED <<text, result, response, doc0, descents>>

----------------------------------------------------------------------------
(* SpecRunner: up to MaxTests calls of run_test, one after the other.      *)

\* the number of calls of run_test
MaxTests == 3

InitRunner ==
  /\ pc = "idle"
  /\ text = <<>>
  /\ result = <<>>
  /\ err = "none"
  /\ response = Idle
  /\ doc0 = Idle
  /\ descents = 0
  /\ source = [kind |-> "runner", TEST_RESULTS |-> <<>>, SUCCESS_COUNT |-> 0,
               FAILURE_COUNT |-> 0, result_log |-> NewLog, query |-> FALSE,
               body |-> NoBody,
               calls |-> 0, escaped |-> 0, missed |-> 0, doubled |-> 0]

RunTest ==
  /\ pc = "idle"
  /\ source.calls < MaxTests
  /\ \E q \in BOOLEAN : Begin(q)

NextRunner ==
  \/ RunTest
  \/ RequestSucceeds
  \/ RequestRejected
  \/ RequestFails
  \/ RequestRaises
  \/ JsonDecodes
  \/ JsonInvalid
  \/ JsonInvalidAsRequestException
  \/ Verify
  \/ Finally

SpecRunner == InitRunner /\ [][NextRunner]_vars

\* the number of entries of TEST_RESULTS with the status st
Entries(st) ==
  Cardinality({i \in 1..Len(source.TEST_RESULTS) : source.TEST_RESULTS[i].status = st})

\* C15: after any sequence of calls of run_test every call has appended
\* one entry to TEST_RESULTS, SUCCESS_COUNT + FAILURE_COUNT is the number
\* of entries, and SUCCESS_COUNT is the number of entries with the status
\* "SUCCESS".
C15_Accounting ==
  source.kind = "runner" /\ pc = "idle"
    => /\ Len(source.TEST_RESULTS) = source.calls
       /\ source.SUCCESS_COUNT + source.FAILURE_COUNT = Len(source.TEST_RESULTS)
       /\ source.SUCCESS_COUNT = Entries("SUCCESS")

\* what does hold: one entry for each call, SUCCESS_COUNT the number of
\* "SUCCESS" entries, and the two counts off by the calls whose request
\* raised another exception than RequestException (counted by neither) and
\* the calls whose body raised a RequestException (counted by both)
AccountingButForUncaught ==
  source.kind = "runner" /\ pc = "idle"
    => /\ Len(source.TEST_RESULTS) = source.calls
       /\ source.SUCCESS_COUNT = Entries("SUCCESS")
       /\ source.SUCCESS_COUNT + source.FAILURE_COUNT
            = Len(source.TEST_RESULTS) - source.missed + source.doubled

\* the cases the claim names: a 2xx response whose verification failed is
\* one failure, a 2xx response whose body is no JSON is one success
NamedCases ==
  source.kind = "runner" /\ pc = "finally" /\ source.missed = 0 /\ source.doubled = 0
    => /\ source.SUCCESS_COUNT + source.FAILURE_COUNT = Len(source.TEST_RESULTS) + 1
       /\ source.result_log.verification = "FAILED" => source.result_log.status = "FAILURE"

====
